---------------------------- MODULE Spec2Model ----------------------------
(* A model of the semantic sentence search of basic_examples.ipynb:        *)
(*   bks  = [s for s in full_doc.sents]                                    *)
(*   svc  = np.array([s.vector for s in bks])                              *)
(*   stx  = np.array([s.text for s in bks])                                *)
(*   nnb  = NearestNeighbors(leaf_size=3, n_neighbors=3); nnb.fit(svc)     *)
(*   answer = nnb.kneighbors([nlp(...).vector], return_distance=False)     *)
(*   for i in answer.flatten(): t = [s for s in stx[i : (i + 3)]]; print   *)
(*                                                                         *)
(* Vectors are tuples of small integers and the metric is the squared      *)
(* Euclidean distance: NearestNeighbors' default metric (minkowski, p = 2) *)
(* ranks exactly as its square does.  Row indices are Python's, 0-based;   *)
(* row i of an array a is the element a[i + 1] of the sequence a.          *)
EXTENDS Integers, Sequences, FiniteSets, TLC

VARIABLES pc, bks, svc, stx, nnb, q, answer, err, printed

vars == <<pc, bks, svc, stx, nnb, q, answer, err, printed>>

(* ------------------------------ bounds --------------------------------- *)
\* The longest corpus (number of sentences of full_doc.sents).
MaxN == 4

(* ------------------------- program constants --------------------------- *)
\* NearestNeighbors(leaf_size=3, n_neighbors=3)
n_neighbors == 3
\* stx[i : (i + 3)]
ContextSize == 3

(* ------------------------------ inputs --------------------------------- *)
\* The coordinates an embedding takes.
Coords == {0, 1}
\* What nlp(text).vector and s.vector return: every vector of the loaded
\* model has the same dimensionality.
Embeddings == {<<x, y>> : x \in Coords, y \in Coords}
\* Vectors of another dimensionality, which kneighbors may be handed.
OtherVectors == {<<0>>, <<1, 0, 1>>}
\* full_doc.sents: the sentences in document order, each with its text (the
\* sentence at position p of the document is the text p) and its vector.
Corpora ==
  UNION {{[p \in 1..n |-> [text |-> p, vector |-> f[p]]] :
            f \in [1..n -> Embeddings]} : n \in 0..MaxN}

(* ------------------------------ helpers -------------------------------- *)
Min(a, b) == IF a <= b THEN a ELSE b

Max(a, b) == IF a >= b THEN a ELSE b

RECURSIVE SumSq(_, _, _)
SumSq(u, v, j) ==
  IF j = 0 THEN 0 ELSE (u[j] - v[j]) * (u[j] - v[j]) + SumSq(u, v, j - 1)

\* The metric of the index between two vectors of one dimensionality.
Dist(u, v) == SumSq(u, v, Len(u))

\* A distance row that pairs each row with the distance of the next one.
DistRowShifted(X, v) == [r \in 1..Len(X) |-> Dist(X[(r % Len(X)) + 1], v)]

\* The distances of the query vector v to every row of X.
DistRow(X, v) == [r \in 1..Len(X) |-> Dist(X[r], v)]

RECURSIVE Perms(_)
\* Every arrangement of the set S as a sequence.
Perms(S) ==
  IF S = {} THEN {<<>>}
  ELSE UNION {{<<x>> \o p : p \in Perms(S \ {x})} : x \in S}

\* Every order the rows 1..n of a matrix can be put in, for each n.
RowOrders == [n \in 0..MaxN |-> Perms(1..n)]

\* a[lo : hi] of Python for 0 <= lo <= hi: both ends are clamped to len(a).
PySlice(a, lo, hi) ==
  LET l == Min(lo, Len(a))
      h == Min(hi, Len(a))
  IN  [j \in 1..Max(h - l, 0) |-> a[l + j]]

(* ---------------------------- build (cell 10) -------------------------- *)
\* np.array([s.vector for s in bks])
VectorMatrix(b) == [p \in 1..Len(b) |-> b[p].vector]

\* A text array built back to front.
TextArrayReversed(b) == [p \in 1..Len(b) |-> b[Len(b) + 1 - p].text]

\* np.array([s.text for s in bks])
TextArray(b) == [p \in 1..Len(b) |-> b[p].text]

(* ----------------------------- fit (cell 11) --------------------------- *)
\* A fit that accepts whatever it is given, an empty array too.
FitCallAny(X) == [err |-> "none", fitted |-> TRUE, fit_X |-> X]

\* nnb.fit(X): the input validation refuses an array that is not 2-D, and
\* np.array([]) of an empty corpus is 1-D; otherwise the rows are kept.
FitCall(X) ==
  IF Len(X) = 0
  THEN [err |-> "ValueError", fitted |-> FALSE, fit_X |-> <<>>]
  ELSE [err |-> "none", fitted |-> TRUE, fit_X |-> X]

(* --------------------------- query (cell 12) --------------------------- *)
\* A partition that leaves the rows in any order.
ArgPartitionNone(d, kth) == RowOrders[Len(d)]

\* np.argpartition(d, kth - 1): the arrangements of the rows in which the
\* row at place kth is where a sort would put it, no row before it is
\* farther and no row after it is closer.  Which one is returned is not
\* fixed by the interface.
ArgPartition(d, kth) ==
  {p \in RowOrders[Len(d)] :
     \A a \in 1..Len(d) :
        /\ a < kth => d[p[a]] <= d[p[kth]]
        /\ a > kth => d[p[a]] >= d[p[kth]]}

\* A sort that leaves the rows in any order.
ArgSortNone(d, ind) == Perms(ind)

\* ind[np.argsort(d[ind])]: the rows of the set ind by ascending distance;
\* rows of equal distance in an order the interface does not fix.
ArgSort(d, ind) ==
  {s \in Perms(ind) :
     \A a \in 1..Len(s) : \A b \in 1..Len(s) : a < b => d[s[a]] <= d[s[b]]}

\* The last k rows of the partitioned row instead of the first k.
KeptLast(d, k) ==
  {{p[Len(d) + 1 - j] : j \in 1..k} : p \in ArgPartition(d, k)}

\* neigh_ind[:, :k] of a partitioned row: the k rows kept.  The sort that
\* follows puts them in every order their distances allow, so of the
\* partition only the set of rows it keeps matters.
Kept(d, k) == {{p[j] : j \in 1..k} : p \in ArgPartition(d, k)}

\* The brute-force neighbour search: partition the distance row at k, keep
\* the first k rows, sort them by distance; 0-based row indices.
KNeighbors(X, v, k) ==
  LET d == DistRow(X, v)
  IN  UNION {{[j \in 1..k |-> s[j] - 1] : s \in ArgSort(d, S)} : S \in Kept(d, k)}

\* v cut or zero-padded to n coordinates.
Resized(v, n) == [j \in 1..n |-> IF j <= Len(v) THEN v[j] ELSE 0]

\* A call that clamps k to the number of rows instead of raising.
KneighborsCallClamp(X, v, k) ==
  IF Len(v) # Len(X[1])
  THEN {[err |-> "ValueError", answer |-> <<>>]}
  ELSE {[err |-> "none", answer |-> r] : r \in KNeighbors(X, v, Min(k, Len(X)))}

\* A call that cuts or pads the query vector to the index's dimensionality.
KneighborsCallResize(X, v, k) ==
  IF k > Len(X)
  THEN {[err |-> "ValueError", answer |-> <<>>]}
  ELSE {[err |-> "none", answer |-> r] :
          r \in KNeighbors(X, Resized(v, Len(X[1])), k)}

\* nnb.kneighbors([v]) on a fitted nnb: the outcomes of the call.
KneighborsCall(X, v, k) ==
  IF k > Len(X) \/ Len(v) # Len(X[1])
  THEN {[err |-> "ValueError", answer |-> <<>>]}
  ELSE {[err |-> "none", answer |-> r] : r \in KNeighbors(X, v, k)}

(* ------------------------------ the cells ------------------------------ *)
\* The notebook after cell 7, with k the n_neighbors that cell 11 hands to
\* NearestNeighbors.
InitWith(k) ==
  /\ pc = "sents"
  /\ bks \in Corpora
  /\ svc = <<>>
  /\ stx = <<>>
  /\ nnb = [n_neighbors |-> k, fitted |-> FALSE, fit_X |-> <<>>]
  /\ q = <<>>
  /\ answer = <<>>
  /\ err = "none"
  /\ printed = <<>>

\* The notebook as written: n_neighbors=3.
Init == InitWith(n_neighbors)

\* The notebook with any n_neighbors from 1 up handed to NearestNeighbors.
InitK == \E k \in 1..MaxN : InitWith(k)

\* Cell 10: the vector matrix and the parallel text array.
Build ==
  /\ pc = "sents"
  /\ svc' = VectorMatrix(bks)
  /\ stx' = TextArray(bks)
  /\ pc' = "arrays"
  /\ UNCHANGED <<bks, nnb, q, answer, err, printed>>

\* Cell 11: nnb = NearestNeighbors(leaf_size=3, n_neighbors=3); nnb.fit(svc)
Fit ==
  /\ pc = "arrays"
  /\ LET f == FitCall(svc)
     IN  /\ nnb' = [nnb EXCEPT !.fitted = f.fitted, !.fit_X = f.fit_X]
         /\ err' = f.err
         /\ pc' = IF f.fitted THEN "fitted" ELSE "fit_failed"
  /\ UNCHANGED <<bks, svc, stx, q, answer, printed>>

\* A window that starts after the matched row.
ContextAfter(a, i) == PySlice(a, i + 1, i + 1 + ContextSize)

\* The loop of cell 12 on one returned row i:
\*   t = [s for s in stx[i : (i + 3)]]
Context(a, i) == PySlice(a, i, i + ContextSize)

\* A search that adds the query vector to the fitted rows and drops the
\* first sentence of the text array.
SearchInsert ==
  /\ pc \in {"fitted", "fit_failed"}
  /\ \E v \in Embeddings \cup OtherVectors :
       /\ q' = v
       /\ nnb' = [nnb EXCEPT !.fit_X = Append(@, v)]
       /\ \E o \in (IF nnb.fitted
                    THEN KneighborsCall(nnb.fit_X, v, nnb.n_neighbors)
                    ELSE {[err |-> "NotFittedError", answer |-> <<>>]}) :
            /\ err' = o.err
            /\ answer' = o.answer
            /\ printed' = [j \in 1..Len(o.answer) |-> Context(stx, o.answer[j])]
            /\ pc' = IF o.err = "none" THEN "searched" ELSE "search_failed"
  /\ stx' = PySlice(stx, 1, Len(stx))
  /\ UNCHANGED <<bks, svc>>

\* Cell 12: answer = nnb.kneighbors([v], return_distance=False), then for
\* each i of answer.flatten() the window of stx at i is printed.  When the
\* call raises, the cell ends there and prints nothing; on an nnb that was
\* never fitted the call raises NotFittedError.
Search ==
  /\ pc \in {"fitted", "fit_failed"}
  /\ \E v \in Embeddings \cup OtherVectors :
       /\ q' = v
       /\ \E o \in (IF nnb.fitted
                    THEN KneighborsCall(nnb.fit_X, v, nnb.n_neighbors)
                    ELSE {[err |-> "NotFittedError", answer |-> <<>>]}) :
            /\ err' = o.err
            /\ answer' = o.answer
            /\ printed' = [j \in 1..Len(o.answer) |-> Context(stx, o.answer[j])]
            /\ pc' = IF o.err = "none" THEN "searched" ELSE "search_failed"
  /\ UNCHANGED <<bks, svc, stx, nnb>>

Next == Build \/ Fit \/ Search

Spec == Init /\ [][Next]_vars

\* The same cells for every n_neighbors.
SpecK == InitK /\ [][Next]_vars


(* ------------------------------- claims -------------------------------- *)
\* The rows of the corpus, 0-based.
Rows == 0..(Len(svc) - 1)

\* The distance of row i of the corpus to the query vector.
D(i) == Dist(svc[i + 1], q)

\* The rows a result r names.
RowsOf(r) == {r[j] : j \in 1..Len(r)}

\* Row a comes before row b in a linear scan sorted by distance, ties by
\* ascending corpus position.
Before(d, a, b) == d[a] < d[b] \/ (d[a] = d[b] /\ a < b)

\* The brute-force oracle: the k first rows of the corpus sorted by
\* (distance, position); 0-based row indices.
LinearScan(X, v, k) ==
  LET d == DistRow(X, v)
  IN  [j \in 1..k |->
         (CHOOSE a \in 1..Len(X) :
            Cardinality({b \in 1..Len(X) : Before(d, b, a)}) = j - 1) - 1]

\* r is a result a brute-force scan for k neighbours of q could give: k
\* distinct rows, and no row left out is strictly closer than a row in it.
NearestOf(r, k) ==
  /\ Len(r) = k
  /\ Cardinality(RowsOf(r)) = k
  /\ RowsOf(r) \subseteq Rows
  /\ \A i \in RowsOf(r) : \A j \in Rows \ RowsOf(r) : D(j) >= D(i)

\* C1: for every k with 1 <= k <= N, a search over a corpus of N >= 1
\* units returns the k nearest units as a brute-force scan would: k
\* distinct units, and no unit left out of the result is strictly closer
\* to the query vector than a unit in it.
Thm_C1 ==
  pc = "searched" =>
    /\ nnb.n_neighbors \in 1..Len(svc)
    /\ NearestOf(answer, nnb.n_neighbors)

\* C1's case: with a k other than the notebook's, a unit left out is
\* strictly farther than every unit returned, another is tied with the
\* farthest unit returned, and the units returned are not all at one
\* distance.
Wit_C1 ==
  /\ pc = "searched"
  /\ nnb.n_neighbors = 2
  /\ \E j \in Rows \ RowsOf(answer) : D(j) > D(answer[2])
  /\ \E j \in Rows \ RowsOf(answer) : D(j) = D(answer[2])
  /\ D(answer[1]) < D(answer[2])

\* C2: a search returns at most k results, sorted by non-decreasing
\* distance to the query vector.
Thm_C2 ==
  pc = "searched" =>
    /\ Len(answer) <= n_neighbors
    /\ \A a \in 1..Len(answer) : \A b \in 1..Len(answer) :
         a < b => D(answer[a]) <= D(answer[b])

\* C2's case: three results at three different distances.
Wit_C2 ==
  /\ pc = "searched"
  /\ D(answer[1]) < D(answer[2])
  /\ D(answer[2]) < D(answer[3])

\* C3: after build the vector matrix has N rows, row i is the vector of
\* sentence i and entry i of the text array is its text; the window printed
\* for a returned row starts with the sentence whose vector was matched.
Thm_C3 ==
  (pc # "sents" /\ Len(bks) >= 1) =>
    /\ Len(svc) = Len(bks)
    /\ Len(stx) = Len(bks)
    /\ \A p \in 1..Len(bks) : svc[p] = bks[p].vector /\ stx[p] = bks[p].text
    /\ pc = "searched" =>
         \A j \in 1..Len(answer) :
            /\ answer[j] \in 0..(Len(bks) - 1)
            /\ stx[answer[j] + 1] = bks[answer[j] + 1].text
            /\ printed[j][1] = bks[answer[j] + 1].text

\* C3's case: a search answered over a corpus longer than the result.
Wit_C3 ==
  /\ pc = "searched"
  /\ Len(bks) > n_neighbors
  /\ answer[1] > 0

\* C4: for a returned row i over N units the context window is the units
\* at positions [i, min(i + c, N)) in document order, nothing is raised,
\* the window starts with unit i and is shorter than c only when i + c > N.
Thm_C4 ==
  pc = "searched" =>
    /\ err = "none"
    /\ Len(printed) = Len(answer)
    /\ \A j \in 1..Len(answer) :
         LET i  == answer[j]
             hi == Min(i + ContextSize, Len(bks))
         IN  /\ printed[j] = [m \in 1..(hi - i) |-> bks[i + m].text]
             /\ printed[j][1] = bks[i + 1].text
             /\ Len(printed[j]) < ContextSize <=> i + ContextSize > Len(bks)

\* C4's case: one window is cut at the end of the corpus, another is full.
Wit_C4 ==
  /\ pc = "searched"
  /\ \E j \in 1..Len(printed) : Len(printed[j]) = 1
  /\ \E j \in 1..Len(printed) : Len(printed[j]) = ContextSize

Thm_C6 ==
  (pc = "searched" /\ \E p \in 1..Len(svc) : svc[p] = q) =>
    /\ D(answer[1]) = 0
    /\ Cardinality({p \in 1..Len(svc) : svc[p] = q}) <= n_neighbors =>
         \A p \in 1..Len(svc) : svc[p] = q => (p - 1) \in RowsOf(answer)

\* C6's case: unit i is queried with its own vector and comes back tied
\* for nearest, after another unit with the same vector.
Wit_C6 ==
  /\ pc = "searched"
  /\ Len(svc) > n_neighbors
  /\ \E p \in 1..Len(svc) :
       /\ svc[p] = q
       /\ (p - 1) \in RowsOf(answer)
       /\ answer[1] # p - 1
  /\ D(answer[n_neighbors]) > 0

\* C7: once built, the corpus, the vector matrix and the text array never
\* change, and once fitted neither does the neighbour structure: no step
\* that follows adds, removes or reorders a unit.
Thm_C7 ==
  [][/\ pc # "sents" => (bks' = bks /\ svc' = svc /\ stx' = stx)
     /\ pc \notin {"sents", "arrays"} => nnb' = nnb]_vars

\* C7's case: a search and its context windows have run after the build.
Wit_C7 ==
  /\ pc = "searched"
  /\ Len(printed) = n_neighbors
  /\ nnb.fitted
  /\ nnb.fit_X = svc

\* C8: with k greater than the corpus size (N in {1, 2} for k = 3) the
\* search ends the same way for every query vector: an error, no partial
\* result and nothing printed.
Thm_C8 ==
  (/\ nnb.fitted
   /\ n_neighbors > Len(nnb.fit_X)
   /\ pc \in {"searched", "search_failed"}) =>
    /\ pc = "search_failed"
    /\ err = "ValueError"
    /\ answer = <<>>
    /\ printed = <<>>

\* C8's case: a query vector of the index's dimensionality over two units.
Wit_C8 ==
  /\ pc = "search_failed"
  /\ nnb.fitted
  /\ Len(svc) = 2
  /\ Len(q) = Len(svc[1])

=============================================================================
